---- MODULE Spec2Model ----
(***************************************************************************)
(* navl: the tree model and the navigation state machine of the file tree  *)
(* viewer (src/src/navl/file_tree_viewer.py).                              *)
(*                                                                         *)
(* A path is the sequence of its name components below the root path, so   *)
(* the root path is <<>>.  A TreeNode is a record; a tree is a function    *)
(* from the path of each node it holds to that node (a tree holds at most  *)
(* one node per path).  The key handlers read the tuple visible_nodes that *)
(* the last _update_display stored; after _refresh_tree that tuple still   *)
(* holds the nodes of the replaced tree, kept here in old_nodes.           *)
(***************************************************************************)
EXTENDS Integers, Sequences, FiniteSets, TLC

VARIABLES
    fs,              \* the filesystem: existing path |-> TRUE iff a directory
    nodes,           \* the tree under self.root_node: path |-> TreeNode
    old_nodes,       \* the replaced tree the cached tuple still refers to
    stale,           \* TRUE iff visible_nodes holds nodes of old_nodes
    visible_nodes,   \* self.visible_nodes: the paths of the cached nodes
    selected_index,  \* self._selected_index
    app_state,       \* "constructed", "running" (rendered once), "exited"
    result,          \* what app.exit was given: <<>> (None) or <<path>>
    enumerated,      \* the paths of the nodes of the tree whose load_children
                     \* has called iterdir since the tree was built
    last_action      \* the handler that ran last ("__init__" at the start)

\* What the program and the filesystem hold.
state == <<fs, nodes, old_nodes, stale, visible_nodes, selected_index,
           app_state, result, enumerated>>

vars == <<state, last_action>>

-----------------------------------------------------------------------------
(* Names and paths *)

\* The names in use, in the order Python's sorted() gives them (code points:
\* "." < "d" < "l" < "m" < "s" < "t", and "main.py" < "my_lib" as "a" < "y").
NameOrder == <<".gitignore", "docs", "locked", "main.py", "my_lib", "src", "tmp">>

NameRank(name) == CHOOSE i \in 1..Len(NameOrder) : NameOrder[i] = name

\* item.name.startswith(".")
StartsWithDot(name) == name \in {".gitignore"}

root_path == <<>>

Name(path) == path[Len(path)]
Parent(path) == SubSeq(path, 1, Len(path) - 1)
IsPrefix(p, q) == Len(p) <= Len(q) /\ SubSeq(q, 1, Len(p)) = p

\* The fixture of the tests (src holding docs, my_lib, main.py), with the
\* .gitignore the ignore tests write, a main.py below docs and a second
\* top-level directory.
SRC == <<"src">>
DOCS == <<"src", "docs">>
MY_LIB == <<"src", "my_lib">>
MAIN_PY == <<"src", "main.py">>
GITIGNORE == <<"src", ".gitignore">>
DOCS_MAIN_PY == <<"src", "docs", "main.py">>
ROOT_GITIGNORE == <<".gitignore">>
TMP == <<"tmp">>
TMP_MAIN_PY == <<"tmp", "main.py">>
LOCKED == <<"locked">>
LOCKED_MAIN_PY == <<"locked", "main.py">>

DirPaths == {root_path, SRC, DOCS, MY_LIB, TMP, LOCKED}
FilePaths == {MAIN_PY, GITIGNORE, DOCS_MAIN_PY, TMP_MAIN_PY, ROOT_GITIGNORE,
              LOCKED_MAIN_PY}

\* The directories the user of the viewer may not list.
UnreadablePaths == {LOCKED}

MakeFs(paths) == [p \in paths |-> p \in DirPaths]

\* The filesystems a session may start on: the test fixture, the fixture
\* with a .gitignore beside src, the fixture with the extra entries below
\* src and tmp, a root path that is a plain file, and a root path that does
\* not exist.
TestPathFs == MakeFs({root_path, SRC, DOCS, MY_LIB, MAIN_PY})
HigherLevelFs == MakeFs({root_path, ROOT_GITIGNORE, SRC, DOCS, MY_LIB, MAIN_PY})
FullFs == MakeFs((DirPaths \cup FilePaths) \ {ROOT_GITIGNORE, LOCKED, LOCKED_MAIN_PY})
RootFileFs == [p \in {root_path} |-> FALSE]
NoRootFs == [p \in {} |-> FALSE]
\* A root holding a directory that may not be listed beside a readable one.
LockedFs == MakeFs({root_path, LOCKED, LOCKED_MAIN_PY, TMP, TMP_MAIN_PY})
InitialFilesystems == {TestPathFs, HigherLevelFs, FullFs, RootFileFs, NoRootFs,
                       LockedFs}

\* The entries an outside process may create or delete while the viewer runs.
ChangeablePaths == {TMP_MAIN_PY, TMP}

-----------------------------------------------------------------------------
(* What the program reads from the filesystem *)

\* path.is_dir(): FALSE also for a path that does not exist.
is_dir(f, path) == path \in DOMAIN f /\ f[path]

\* path.iterdir(): the entries directly below path.
iterdir(f, path) == {q \in DOMAIN f : Len(q) = Len(path) + 1 /\ Parent(q) = path}

\* What path.iterdir() raises: "none" when it lists the directory.
iterdir_raises(f, path) ==
    IF path \notin DOMAIN f THEN "FileNotFoundError"
    ELSE IF ~f[path] THEN "NotADirectoryError"
    ELSE IF path \in UnreadablePaths THEN "PermissionError"
    ELSE "none"

\* Path comparison of two entries of the same directory.
PathLess(p, q) == NameRank(Name(p)) < NameRank(Name(q))

RECURSIVE sorted(_)
sorted(items) ==
    IF items = {} THEN <<>>
    ELSE LET least == CHOOSE p \in items : \A q \in items \ {p} : PathLess(p, q)
         IN <<least>> \o sorted(items \ {least})

-----------------------------------------------------------------------------
(* TreeNode *)

\* None, and a reference to the node of a tree at a path.
None == <<>>
Some(x) == <<x>>

\* TreeNode.__init__
TreeNode(f, path, parent, expanded) ==
    [path |-> path,
     parent |-> parent,
     children |-> <<>>,
     expanded |-> expanded,
     is_directory |-> is_dir(f, path)]

Range(seq) == {seq[i] : i \in 1..Len(seq)}

\* load_children reaches self.path.iterdir().
load_children_enumerates(tree, path) ==
    tree[path].is_directory /\ tree[path].children = <<>>

\* load_children ends in an exception other than the PermissionError it
\* catches, the children being as they were.
load_children_raises(f, tree, path) ==
    /\ load_children_enumerates(tree, path)
    /\ iterdir_raises(f, path) \notin {"none", "PermissionError"}

\* load_children storing the directories before the files.
LoadChildrenDirsFirst(f, tree, path) ==
    IF ~tree[path].is_directory \/ tree[path].children # <<>> THEN tree
    ELSE IF iterdir_raises(f, path) # "none" THEN tree
    ELSE LET items == sorted(iterdir(f, path))
             admitted == SelectSeq(items, LAMBDA item : ~StartsWithDot(Name(item)))
             ordered == SelectSeq(admitted, LAMBDA item : is_dir(f, item))
                        \o SelectSeq(admitted, LAMBDA item : ~is_dir(f, item))
         IN [p \in DOMAIN tree \cup Range(admitted) |->
                IF p = path THEN [tree[path] EXCEPT !.children = ordered]
                ELSE IF p \in Range(admitted) THEN TreeNode(f, p, Some(path), FALSE)
                ELSE tree[p]]

\* TreeNode.load_children on the node at path of tree: the tree afterwards.
load_children(f, tree, path) ==
    IF ~tree[path].is_directory \/ tree[path].children # <<>> THEN tree
    ELSE IF iterdir_raises(f, path) # "none" THEN tree
    ELSE LET items == sorted(iterdir(f, path))
             admitted == SelectSeq(items, LAMBDA item : ~StartsWithDot(Name(item)))
         IN [p \in DOMAIN tree \cup Range(admitted) |->
                IF p = path THEN [tree[path] EXCEPT !.children = admitted]
                ELSE IF p \in Range(admitted) THEN TreeNode(f, p, Some(path), FALSE)
                ELSE tree[p]]

\* toggle_expanded ends in the exception of load_children, the node being as
\* it was.
toggle_expanded_raises(f, tree, path) ==
    /\ tree[path].is_directory
    /\ ~tree[path].expanded
    /\ load_children_raises(f, tree, path)

\* toggle_expanded reaches self.path.iterdir().
toggle_expanded_enumerates(tree, path) ==
    /\ tree[path].is_directory
    /\ ~tree[path].expanded
    /\ load_children_enumerates(tree, path)

\* toggle_expanded dropping the children of the node it collapses.
ToggleExpandedUnloading(f, tree, path) ==
    IF tree[path].is_directory
    THEN IF ~tree[path].expanded
         THEN [load_children(f, tree, path) EXCEPT ![path].expanded = TRUE]
         ELSE [tree EXCEPT ![path].expanded = FALSE, ![path].children = <<>>]
    ELSE tree

\* TreeNode.toggle_expanded on the node at path of tree: the tree afterwards.
toggle_expanded(f, tree, path) ==
    IF tree[path].is_directory
    THEN LET loaded == IF ~tree[path].expanded THEN load_children(f, tree, path)
                       ELSE tree
         IN [loaded EXCEPT ![path].expanded = ~tree[path].expanded]
    ELSE tree

-----------------------------------------------------------------------------
(* FileTreeViewer: the tree walks *)

\* _init_root_node without the call of load_children.
InitRootNodeUnloaded(f) == [p \in {root_path} |-> TreeNode(f, root_path, None, TRUE)]

\* FileTreeViewer._init_root_node
_init_root_node(f) ==
    load_children(f, [p \in {root_path} |-> TreeNode(f, root_path, None, TRUE)],
                  root_path)

RECURSIVE _collect_visible_nodes(_, _)
RECURSIVE CollectVisibleChildren(_, _)
\* _collect_visible_nodes without the test of node.expanded.
CollectVisibleUngated(tree, path) ==
    <<path>> \o CollectVisibleChildren(tree, tree[path].children)

\* FileTreeViewer._collect_visible_nodes: the paths of the nodes it yields.
_collect_visible_nodes(tree, path) ==
    <<path>> \o (IF tree[path].expanded
                 THEN CollectVisibleChildren(tree, tree[path].children)
                 ELSE <<>>)

\* The loop over node.children of _collect_visible_nodes.
CollectVisibleChildren(tree, children) ==
    IF children = <<>> THEN <<>>
    ELSE _collect_visible_nodes(tree, Head(children))
         \o CollectVisibleChildren(tree, Tail(children))

RECURSIVE _collect_expanded_paths(_, _)
RECURSIVE CollectExpandedChildren(_, _)
\* _collect_expanded_paths with the loop over node.children inside the
\* "if node.expanded", as in _collect_visible_nodes.
CollectExpandedGated(tree, path) ==
    IF tree[path].expanded
    THEN <<tree[path].path>> \o CollectExpandedChildren(tree, tree[path].children)
    ELSE <<>>

\* FileTreeViewer._collect_expanded_paths: the paths it yields, in order.
_collect_expanded_paths(tree, path) ==
    (IF tree[path].expanded THEN <<tree[path].path>> ELSE <<>>)
    \o CollectExpandedChildren(tree, tree[path].children)

\* The loop over node.children of _collect_expanded_paths.
CollectExpandedChildren(tree, children) ==
    IF children = <<>> THEN <<>>
    ELSE _collect_expanded_paths(tree, Head(children))
         \o CollectExpandedChildren(tree, Tail(children))

RECURSIVE _restore_expanded_state(_, _, _, _)
RECURSIVE RestoreChildren(_, _, _, _)
\* _restore_expanded_state without the loop over node.children.
RestoreWithoutDescending(f, tree, path, expanded_paths) ==
    IF tree[path].path \in expanded_paths
    THEN load_children(f, [tree EXCEPT ![path].expanded = TRUE], path)
    ELSE tree

\* FileTreeViewer._restore_expanded_state on the node at path: the tree
\* afterwards.
_restore_expanded_state(f, tree, path, expanded_paths) ==
    IF tree[path].path \in expanded_paths
    THEN LET loaded == load_children(f, [tree EXCEPT ![path].expanded = TRUE], path)
         IN RestoreChildren(f, loaded, loaded[path].children, expanded_paths)
    ELSE tree

\* The loop over node.children of _restore_expanded_state.
RestoreChildren(f, tree, children, expanded_paths) ==
    IF children = <<>> THEN tree
    ELSE RestoreChildren(f,
             _restore_expanded_state(f, tree, Head(children), expanded_paths),
             Tail(children), expanded_paths)

-----------------------------------------------------------------------------
(* FileTreeViewer: construction, the key handlers and the display *)

\* The tree the nodes of the cached tuple belong to.
CachedTree == IF stale THEN old_nodes ELSE nodes

\* visible_nodes[self.selected_index]
SelectedNode == CachedTree[visible_nodes[selected_index + 1]]

\* A mutation of the nodes of the cached tuple: of the tree in use, or of the
\* replaced one when the tuple was stored before a refresh.
SetCachedTree(tree) ==
    IF stale THEN old_nodes' = tree /\ nodes' = nodes
    ELSE nodes' = tree /\ old_nodes' = old_nodes

\* node.toggle_expanded() on the selected node, which does not raise.
ToggleSelected ==
    /\ SetCachedTree(toggle_expanded(fs, CachedTree, SelectedNode.path))
    /\ enumerated' = IF ~stale /\ toggle_expanded_enumerates(nodes, SelectedNode.path)
                     THEN enumerated \cup {SelectedNode.path}
                     ELSE enumerated

\* root_path.exists as main tests it: the bound method itself, not the
\* result of calling it, and a bound method is true.
exists_attribute(f, path) == TRUE

\* visible_nodes.index(node): the zero-based position of the first occurrence.
IndexOf(seq, x) == (CHOOSE i \in 1..Len(seq) :
                       seq[i] = x /\ \A j \in 1..(i - 1) : seq[j] # x) - 1

\* main up to the construction of the viewer, and FileTreeViewer.__init__
Init ==
    /\ fs \in InitialFilesystems
    /\ nodes = _init_root_node(fs)
    /\ old_nodes = <<>>
    /\ stale = FALSE
    /\ visible_nodes = <<>>
    /\ selected_index = 0
    /\ app_state = IF ~exists_attribute(fs, root_path) THEN "exited"
                   ELSE "constructed"
    /\ result = None
    /\ enumerated = {p \in {root_path} : is_dir(fs, p)}
    /\ last_action = "__init__"

\* FileTreeViewer._update_display, called by the application for every
\* render; the first one comes before any key is handled.
\* _update_display without the two tests that bring the index back into
\* the new tuple.
UpdateDisplayWithoutClamp ==
    /\ last_action' = "_update_display"
    /\ app_state \in {"constructed", "running"}
    /\ visible_nodes' = _collect_visible_nodes(nodes, root_path)
    /\ stale' = FALSE
    /\ old_nodes' = <<>>
    /\ app_state' = "running"
    /\ UNCHANGED <<fs, nodes, result, enumerated, selected_index>>

_update_display ==
    /\ last_action' = "_update_display"
    /\ app_state \in {"constructed", "running"}
    /\ LET visible == _collect_visible_nodes(nodes, root_path)
           clamped == IF selected_index >= Len(visible) THEN Len(visible) - 1
                      ELSE selected_index
       IN /\ visible_nodes' = visible
          /\ selected_index' = IF clamped < 0 THEN 0 ELSE clamped
    /\ stale' = FALSE
    /\ old_nodes' = <<>>
    /\ app_state' = "running"
    /\ UNCHANGED <<fs, nodes, result, enumerated>>

move_up ==
    /\ last_action' = "move_up"
    /\ app_state = "running"
    /\ selected_index' = IF selected_index > 0 THEN selected_index - 1
                         ELSE selected_index
    /\ UNCHANGED <<fs, nodes, old_nodes, stale, visible_nodes, app_state, result,
                   enumerated>>

\* move_down comparing with len(self.visible_nodes) instead of the last index.
MoveDownOffByOne ==
    /\ last_action' = "move_down"
    /\ app_state = "running"
    /\ selected_index' = IF selected_index < Len(visible_nodes)
                         THEN selected_index + 1
                         ELSE selected_index
    /\ UNCHANGED <<fs, nodes, old_nodes, stale, visible_nodes, app_state, result,
                   enumerated>>

move_down ==
    /\ last_action' = "move_down"
    /\ app_state = "running"
    /\ selected_index' = IF selected_index < Len(visible_nodes) - 1
                         THEN selected_index + 1
                         ELSE selected_index
    /\ UNCHANGED <<fs, nodes, old_nodes, stale, visible_nodes, app_state, result,
                   enumerated>>

\* An uncaught exception of a handler ends the application.
Raise(exception) ==
    /\ app_state' = "crashed"
    /\ result' = Some(exception)
    /\ UNCHANGED <<fs, nodes, old_nodes, stale, visible_nodes, selected_index,
                   enumerated>>

select_and_exit ==
    /\ last_action' = "select_and_exit"
    /\ app_state = "running"
    /\ IF visible_nodes # <<>>
       THEN IF selected_index >= Len(visible_nodes) THEN Raise("IndexError")
            ELSE /\ app_state' = "exited"
                 /\ result' = Some(SelectedNode.path)
                 /\ UNCHANGED <<fs, nodes, old_nodes, stale, visible_nodes,
                                selected_index, enumerated>>
       ELSE UNCHANGED state

toggle_node ==
    /\ last_action' = "toggle_node"
    /\ app_state = "running"
    /\ IF visible_nodes # <<>>
       THEN IF selected_index >= Len(visible_nodes) THEN Raise("IndexError")
            ELSE IF toggle_expanded_raises(fs, CachedTree, SelectedNode.path)
            THEN Raise(iterdir_raises(fs, SelectedNode.path))
            ELSE /\ ToggleSelected
                 /\ UNCHANGED <<fs, stale, visible_nodes, selected_index, app_state,
                                result>>
       ELSE UNCHANGED state

expand_node ==
    /\ last_action' = "expand_node"
    /\ app_state = "running"
    /\ IF visible_nodes # <<>>
       THEN IF selected_index >= Len(visible_nodes) THEN Raise("IndexError")
            ELSE IF toggle_expanded_raises(fs, CachedTree, SelectedNode.path)
            THEN Raise(iterdir_raises(fs, SelectedNode.path))
            ELSE /\ IF SelectedNode.is_directory /\ ~SelectedNode.expanded
                    THEN ToggleSelected
                    ELSE UNCHANGED <<nodes, old_nodes, enumerated>>
                 /\ UNCHANGED <<fs, stale, visible_nodes, selected_index, app_state,
                                result>>
       ELSE UNCHANGED state

\* collapse_node moving to the line above instead of the parent's line.
CollapseToPreviousLine ==
    /\ last_action' = "collapse_node"
    /\ app_state = "running"
    /\ IF selected_index < Len(visible_nodes)
       THEN IF SelectedNode.is_directory /\ SelectedNode.expanded
            THEN /\ ToggleSelected
                 /\ UNCHANGED <<fs, stale, visible_nodes, selected_index, app_state,
                                result>>
            ELSE IF SelectedNode.parent # None
            THEN /\ selected_index' = selected_index - 1
                 /\ UNCHANGED <<fs, nodes, old_nodes, stale, visible_nodes,
                                app_state, result, enumerated>>
            ELSE UNCHANGED state
       ELSE UNCHANGED state

\* collapse_node with "if" for the "elif": after collapsing an expanded
\* directory it goes on to the parent's line.
CollapseAndJump ==
    /\ last_action' = "collapse_node"
    /\ app_state = "running"
    /\ IF selected_index < Len(visible_nodes)
       THEN IF SelectedNode.is_directory /\ SelectedNode.expanded
            THEN /\ ToggleSelected
                 /\ selected_index' =
                        IF SelectedNode.parent # None
                        THEN IndexOf(visible_nodes, SelectedNode.parent[1])
                        ELSE selected_index
                 /\ UNCHANGED <<fs, stale, visible_nodes, app_state, result>>
            ELSE IF SelectedNode.parent # None
            THEN IF SelectedNode.parent[1] \in Range(visible_nodes)
                 THEN /\ selected_index' = IndexOf(visible_nodes,
                                                   SelectedNode.parent[1])
                      /\ UNCHANGED <<fs, nodes, old_nodes, stale, visible_nodes,
                                     app_state, result, enumerated>>
                 ELSE Raise("ValueError")
            ELSE UNCHANGED state
       ELSE UNCHANGED state

collapse_node ==
    /\ last_action' = "collapse_node"
    /\ app_state = "running"
    /\ IF selected_index < Len(visible_nodes)
       THEN IF SelectedNode.is_directory /\ SelectedNode.expanded
            THEN /\ ToggleSelected
                 /\ UNCHANGED <<fs, stale, visible_nodes, selected_index, app_state,
                                result>>
            ELSE IF SelectedNode.parent # None
            THEN IF SelectedNode.parent[1] \in Range(visible_nodes)
                 THEN /\ selected_index' = IndexOf(visible_nodes,
                                                   SelectedNode.parent[1])
                      /\ UNCHANGED <<fs, nodes, old_nodes, stale, visible_nodes,
                                     app_state, result, enumerated>>
                 ELSE Raise("ValueError")
            ELSE UNCHANGED state
       ELSE UNCHANGED state

quit_app ==
    /\ last_action' = "quit_app"
    /\ app_state = "running"
    /\ app_state' = "exited"
    /\ result' = None
    /\ UNCHANGED <<fs, nodes, old_nodes, stale, visible_nodes, selected_index,
                   enumerated>>

\* FileTreeViewer._refresh_tree: the tree afterwards.
_refresh_tree(f, tree) ==
    LET expanded_paths == Range(_collect_expanded_paths(tree, root_path))
    IN _restore_expanded_state(f, _init_root_node(f), root_path, expanded_paths)

\* The handler of "r".  The cached tuple keeps the nodes of the tree it was
\* collected from.
refresh ==
    /\ last_action' = "refresh"
    /\ app_state = "running"
    /\ nodes' = _refresh_tree(fs, nodes)
    /\ enumerated' = {p \in DOMAIN nodes' :
                         /\ nodes'[p].is_directory
                         /\ p = root_path \/ nodes'[p].expanded}
    /\ selected_index' = 0
    /\ IF stale THEN UNCHANGED <<old_nodes, stale>>
       ELSE old_nodes' = nodes /\ stale' = TRUE
    /\ UNCHANGED <<fs, visible_nodes, app_state, result>>

\* The filesystem after an entry and all below it is deleted, or after it
\* is created (a directory comes empty).
ChangedFs(f, p) ==
    IF p \in DOMAIN f
    THEN [q \in {q \in DOMAIN f : ~IsPrefix(p, q)} |-> f[q]]
    ELSE [q \in DOMAIN f \cup {p} |-> IF q = p THEN p \in DirPaths ELSE f[q]]

\* Another process creates or deletes an entry of an existing directory.
FsChange ==
    /\ app_state \in {"constructed", "running"}
    /\ \E p \in ChangeablePaths :
          /\ is_dir(fs, Parent(p))
          /\ fs' = ChangedFs(fs, p)
    /\ UNCHANGED <<nodes, old_nodes, stale, visible_nodes, selected_index,
                   app_state, result, enumerated, last_action>>

Next ==
    \/ _update_display
    \/ move_up
    \/ move_down
    \/ select_and_exit
    \/ toggle_node
    \/ expand_node
    \/ collapse_node
    \/ quit_app
    \/ refresh

\* A session over a filesystem nothing else writes to.
Spec == Init /\ [][Next]_vars

NextFs ==
    \/ Next
    \/ FsChange

\* The starting filesystems of the sessions another process writes to.
ChangingFilesystems == {LockedFs}

InitFs == Init /\ fs \in ChangingFilesystems

\* A session over a filesystem another process writes to.
SpecFs == InitFs /\ [][NextFs]_vars

-----------------------------------------------------------------------------
(* The visible sequence, stated without the walk *)

\* The visible sequence derived from the tree as it stands.
Flattened(tree) == _collect_visible_nodes(tree, root_path)

ProperAncestors(path) == {SubSeq(path, 1, k) : k \in 0..(Len(path) - 1)}

\* The nodes all of whose ancestors are expanded.
ShownPaths(tree) ==
    {p \in DOMAIN tree :
        \A a \in ProperAncestors(p) : a \in DOMAIN tree /\ tree[a].expanded}

\* The position of a child in the stored children of the directory.
ChildPosition(tree, dir, child) ==
    CHOOSE i \in 1..Len(tree[dir].children) : tree[dir].children[i] = child

\* p comes before q in the depth-first pre-order of the tree: p is an
\* ancestor of q, or where their paths part p follows the earlier child.
WalkBefore(tree, p, q) ==
    /\ p # q
    /\ \/ IsPrefix(p, q)
       \/ /\ ~IsPrefix(q, p)
          /\ LET k == CHOOSE k \in 1..Len(p) :
                         /\ p[k] # q[k]
                         /\ SubSeq(p, 1, k - 1) = SubSeq(q, 1, k - 1)
                 dir == SubSeq(p, 1, k - 1)
             IN ChildPosition(tree, dir, SubSeq(p, 1, k))
                    < ChildPosition(tree, dir, SubSeq(q, 1, k))

\* seq lists the root and the children of every expanded directory below
\* expanded ancestors, each once, in depth-first pre-order.
IsGatedPreorder(tree, seq) ==
    /\ Len(seq) = Cardinality(ShownPaths(tree))
    /\ Range(seq) = ShownPaths(tree)
    /\ seq[1] = root_path
    /\ \A i, j \in 1..Len(seq) : i < j => WalkBefore(tree, seq[i], seq[j])

\* A directory node whose children have been loaded.
Loaded(tree, path) == path \in DOMAIN tree /\ tree[path].children # <<>>

-----------------------------------------------------------------------------
(* C1 *)

\* C1: whatever commands came before, the sequence a render stores is the
\* depth-first pre-order walk gated by the expanded flag: the root, then the
\* children of every expanded directory whose ancestors are all expanded, in
\* stored order, each node once, and nothing below a collapsed directory.
C1_RenderedIsGatedPreorder ==
    [][_update_display => IsGatedPreorder(nodes', visible_nodes')]_vars

\* A render of a tree holding a collapsed directory with loaded children
\* beside an expanded one.
C1_Witness ==
    /\ last_action = "_update_display"
    /\ Loaded(nodes, SRC) /\ ~nodes[SRC].expanded
    /\ Loaded(nodes, TMP) /\ nodes[TMP].expanded
    /\ visible_nodes = <<root_path, SRC, TMP, TMP_MAIN_PY>>

-----------------------------------------------------------------------------
(* C2 *)

\* C2: after move_up, move_down, expand, collapse and toggle the selection
\* index lies within the sequence obtained by flattening the tree as it
\* stands after the command, also with no render between two commands.
C2_IndexWithinFlattenedTree ==
    [][(move_up \/ move_down \/ expand_node \/ collapse_node \/ toggle_node)
          => (0 <= selected_index' /\ selected_index' < Len(Flattened(nodes')))]_vars

-----------------------------------------------------------------------------
(* C3 *)

\* C3: move_down adds one to the selection index below the last index of the
\* visible sequence the viewer holds and does nothing at the end, move_up
\* takes one off above 0 and does nothing at 0, neither touches a node, and
\* the index of a running viewer never leaves that sequence.
C3_MovesStayInBounds ==
    [][/\ move_down =>
            /\ selected_index' = IF selected_index < Len(visible_nodes) - 1
                                 THEN selected_index + 1 ELSE selected_index
            /\ nodes' = nodes /\ old_nodes' = old_nodes
       /\ move_up =>
            /\ selected_index' = IF selected_index > 0
                                 THEN selected_index - 1 ELSE selected_index
            /\ nodes' = nodes /\ old_nodes' = old_nodes
       /\ app_state' = "running" =>
            /\ 0 <= selected_index'
            /\ selected_index' <= Len(visible_nodes') - 1]_vars

\* move_down has reached the last line of a sequence of five lines.
C3_Witness ==
    /\ last_action = "move_down"
    /\ Len(visible_nodes) = 5
    /\ selected_index = Len(visible_nodes) - 1

-----------------------------------------------------------------------------
(* C4 *)

\* C4: collapse on a selected node that is not an expanded directory and has
\* a parent moves the selection index to the parent's position in the visible
\* sequence the viewer holds and changes no expanded flag; an expanded
\* directory is collapsed instead, the index staying; on a collapsed root,
\* which has no parent, nothing changes.
C4_CollapseJumpsToParent ==
    [][collapse_node =>
          LET path == visible_nodes[selected_index + 1]
              node == CachedTree[path]
          IN IF node.is_directory /\ node.expanded
             THEN /\ CachedTree' = [CachedTree EXCEPT ![path].expanded = FALSE]
                  /\ selected_index' = selected_index
             ELSE IF path # root_path
             THEN /\ visible_nodes[selected_index' + 1] = Parent(path)
                  /\ nodes' = nodes /\ old_nodes' = old_nodes
             ELSE UNCHANGED state]_vars

\* collapse on main.py, two lines below src, has moved the selection to src.
C4_Witness ==
    /\ last_action = "collapse_node"
    /\ visible_nodes = <<root_path, SRC, DOCS, DOCS_MAIN_PY, MAIN_PY, MY_LIB, TMP>>
    /\ selected_index = 1
    /\ Loaded(CachedTree, SRC) /\ CachedTree[SRC].expanded

-----------------------------------------------------------------------------
(* C5, C6 *)

\* The entries of a directory whose name does not start with a dot; a
\* directory that cannot be enumerated yields none.
AdmittedEntries(f, dir) ==
    IF iterdir_raises(f, dir) # "none" THEN {}
    ELSE {q \in iterdir(f, dir) : ~StartsWithDot(Name(q))}

\* The paths whose node has expanded = true.
ExpandedPaths(tree) == {p \in DOMAIN tree : tree[p].expanded}

\* C5: on a filesystem that does not change, refresh leaves every directory
\* that was expanded below expanded ancestors (src and src/docs, say)
\* expanded again with its children loaded, and sets the selection index to 0.
C5_RefreshRestoresVisibleExpansion ==
    [][refresh =>
          /\ selected_index' = 0
          /\ \A p \in ShownPaths(nodes) :
                (nodes[p].is_directory /\ nodes[p].expanded) =>
                    /\ p \in DOMAIN nodes'
                    /\ nodes'[p].expanded
                    /\ Range(nodes'[p].children) = AdmittedEntries(fs, p)
                    /\ Range(nodes'[p].children) \subseteq DOMAIN nodes']_vars

\* refresh with src and src/docs expanded and tmp collapsed, the selection
\* being back on line 0 of a sequence stored while it was further down.
C5_Witness ==
    /\ last_action = "refresh"
    /\ Loaded(nodes, SRC) /\ nodes[SRC].expanded
    /\ Loaded(nodes, DOCS) /\ nodes[DOCS].expanded
    /\ TMP \in DOMAIN nodes /\ ~nodes[TMP].expanded /\ ~Loaded(nodes, TMP)
    /\ stale
    /\ Loaded(old_nodes, DOCS) /\ old_nodes[DOCS].expanded
    /\ selected_index = 0

\* C6: on a filesystem that does not change, the set of paths whose node is
\* expanded is the same after refresh as before it, the root and the
\* directories expanded below a collapsed ancestor included.
C6_RefreshKeepsExpandedPaths ==
    [][refresh => ExpandedPaths(nodes') = ExpandedPaths(nodes)]_vars

-----------------------------------------------------------------------------
(* C7 *)

\* seq is in ascending order of name.
AscendingNames(seq) ==
    \A i, j \in 1..Len(seq) : i < j => NameRank(Name(seq[i])) < NameRank(Name(seq[j]))

\* C7: right after construction the visible sequence is the root followed by
\* the root's admitted entries in name order, each of them collapsed with no
\* children loaded, and the selection index is 0.
C7_InitialVisibleSequence ==
    app_state = "constructed" =>
        LET visible == Flattened(nodes)
            children == SubSeq(visible, 2, Len(visible))
        IN /\ visible[1] = root_path
           /\ Range(children) = AdmittedEntries(fs, root_path)
           /\ AscendingNames(children)
           /\ \A c \in Range(children) :
                 ~nodes[c].expanded /\ nodes[c].children = <<>>
           /\ selected_index = 0

\* The viewer constructed over the root that holds only src.
C7_Witness ==
    /\ app_state = "constructed"
    /\ fs = TestPathFs
    /\ Flattened(nodes) = <<root_path, SRC>>

-----------------------------------------------------------------------------
(* C8 *)

-----------------------------------------------------------------------------
(* C9 *)

\* C9: select_and_finish ends the session with the path of the node at the
\* selection index of the visible sequence derived from the current tree and
\* changes neither the tree nor the index; quit ends it with no path.
C9_SelectReturnsPathOfCurrentTree ==
    [][/\ select_and_exit =>
            /\ app_state' = "exited"
            /\ selected_index < Len(Flattened(nodes))
            /\ result' = Some(Flattened(nodes)[selected_index + 1])
            /\ nodes' = nodes
            /\ selected_index' = selected_index
       /\ quit_app => (app_state' = "exited" /\ result' = None)]_vars

-----------------------------------------------------------------------------
(* C10 *)

\* The name of an ignore-definition file.
IgnoreFileName == ".gitignore"

\* The ignore-definition files in dir or above it.
IgnoreFilesAtOrAbove(f, dir) ==
    {g \in DOMAIN f : g # root_path /\ Name(g) = IgnoreFileName /\ IsPrefix(Parent(g), dir)}

\* parse_gitignore of a file holding "**/main.py", asked about path.
GitignoreMatches(ignore_file, path) ==
    /\ path # root_path
    /\ Name(path) = "main.py"
    /\ IsPrefix(Parent(ignore_file), path)

\* C10: the loaded children of a directory hold no name starting with a dot
\* other than the ignore file lying in that directory, which is kept, and no
\* entry that an ignore file in or above the directory matches.
C10_ChildrenFilteredByIgnoreFile ==
    \A dir \in DOMAIN nodes :
        nodes[dir].children # <<>> =>
            /\ \A c \in Range(nodes[dir].children) :
                  /\ StartsWithDot(Name(c)) => Name(c) = IgnoreFileName
                  /\ \A g \in IgnoreFilesAtOrAbove(fs, dir) : ~GitignoreMatches(g, c)
            /\ \A g \in iterdir(fs, dir) :
                  Name(g) = IgnoreFileName => g \in Range(nodes[dir].children)

-----------------------------------------------------------------------------
(* C11 *)

\* C11: when the enumeration of a directory fails, for a denied permission
\* or for any other reason, expanding or toggling that directory raises
\* nothing: the session goes on, the directory is marked expanded with no
\* children, and the flattened tree gains no entry.
C11_EnumerationFailureSwallowed ==
    [][((toggle_node \/ expand_node) /\ ~stale
            /\ selected_index < Len(visible_nodes)) =>
          LET dir == visible_nodes[selected_index + 1]
          IN (toggle_expanded_enumerates(nodes, dir)
                  /\ iterdir_raises(fs, dir) # "none") =>
                /\ app_state' = "running"
                /\ nodes'[dir].expanded
                /\ nodes'[dir].children = <<>>
                /\ Flattened(nodes') = Flattened(nodes)]_vars

-----------------------------------------------------------------------------
(* C12 *)

\* C12: a session started on a root path that does not exist fails before
\* the interactive loop: over a missing root no viewer is ever constructed
\* and no state in which commands are accepted is reached.
C12_NoSessionOverMissingRoot ==
    root_path \notin DOMAIN fs => app_state \notin {"constructed", "running"}

-----------------------------------------------------------------------------
(* C13 *)

\* C13: between two refreshes the children of a directory are populated
\* once: after its first enumeration no command other than refresh changes
\* the child list of a directory, an empty list included, whatever happened
\* to the filesystem since.
C13_ChildrenLoadedOnce ==
    [][refresh \/ \A p \in enumerated : nodes'[p].children = nodes[p].children]_vars

-----------------------------------------------------------------------------
(* C14 *)

\* C14: after refresh every node of the rebuilt tree whose path was not in
\* the set of expanded paths collected before the refresh is collapsed and
\* has no children loaded; so every directory that was collapsed before the
\* refresh, the root included, is collapsed after it.
C14_RefreshLeavesOthersCollapsed ==
    [][refresh =>
          \A p \in DOMAIN nodes' :
              p \notin Range(_collect_expanded_paths(nodes, root_path)) =>
                  ~nodes'[p].expanded /\ nodes'[p].children = <<>>]_vars

-----------------------------------------------------------------------------
(* C15 *)

\* The paths strictly below a directory.
StrictlyBelow(dir, path) == IsPrefix(dir, path) /\ path # dir

-----------------------------------------------------------------------------
(* C16 *)

\* C16: in every reachable state a node that is not a directory has no
\* children and its expanded flag is false, the root included when the root
\* path is not a directory.
C16_NonDirectoryIsCollapsedLeaf ==
    \A p \in DOMAIN nodes :
        ~nodes[p].is_directory => (nodes[p].children = <<>> /\ ~nodes[p].expanded)

-----------------------------------------------------------------------------
(* C17 *)

\* C17: from the first render on no command fails on a lookup, with or
\* without renders between the commands and also right after a refresh:
\* the selection index lies within the cached tuple whenever a command can
\* read it, the parent of every node of the cached tuple is in the tuple,
\* and no session has ended with an IndexError or a ValueError.
C17_NoLookupFails ==
    /\ app_state = "crashed" =>
          result \notin {Some("IndexError"), Some("ValueError")}
    /\ app_state = "running" =>
          /\ 0 <= selected_index /\ selected_index < Len(visible_nodes)
          /\ \A i \in 1..Len(visible_nodes) :
                LET node == CachedTree[visible_nodes[i]]
                IN node.parent # None => node.parent[1] \in Range(visible_nodes)

\* Right after a refresh, with no render yet, collapse has jumped from an
\* entry of the expanded src to the line of src in the tuple of the
\* replaced nodes.
C17_Witness ==
    /\ app_state = "running"
    /\ last_action = "collapse_node"
    /\ stale
    /\ selected_index = 1
    /\ visible_nodes = <<root_path, SRC, DOCS, MAIN_PY, MY_LIB>>
    /\ old_nodes[SRC].expanded

-----------------------------------------------------------------------------
(* C18 *)

-----------------------------------------------------------------------------
(* C19 *)

\* C19: collapse dispatched again and again, a render after each, comes to
\* rest only in the state where the root is collapsed, the visible sequence
\* is the root alone and the selection index is 0: a collapse that follows
\* a render and changes nothing finds the viewer in that state.
C19_CollapseRestsAtCollapsedRoot ==
    [][(collapse_node /\ ~stale /\ visible_nodes = Flattened(nodes)
            /\ UNCHANGED state) =>
          /\ ~nodes[root_path].expanded
          /\ visible_nodes = <<root_path>>
          /\ selected_index = 0]_vars

-----------------------------------------------------------------------------
(* C20 *)

\* C20: the collection of expanded paths that refresh uses yields the paths
\* of exactly the nodes of the tree whose expanded flag is true, each once,
\* in depth-first pre-order: nothing when no flag is set, not the root when
\* the root is collapsed, and also the expanded nodes below collapsed ones.
C20_CollectsExactlyExpandedPaths ==
    LET collected == _collect_expanded_paths(nodes, root_path)
    IN /\ Range(collected) = ExpandedPaths(nodes)
       /\ Len(collected) = Cardinality(ExpandedPaths(nodes))
       /\ \A i, j \in 1..Len(collected) :
             i < j => WalkBefore(nodes, collected[i], collected[j])

\* The root and src are collapsed and docs, below both, is expanded: docs
\* is what the collection yields.
C20_Witness ==
    /\ ~nodes[root_path].expanded
    /\ Loaded(nodes, SRC) /\ ~nodes[SRC].expanded
    /\ Loaded(nodes, DOCS) /\ nodes[DOCS].expanded
    /\ _collect_expanded_paths(nodes, root_path) = <<DOCS>>

====
